---- MODULE Spec2Model ----
(***************************************************************************)
(* Model of Scripts/off_export.py: the OpenFoodFacts snapshot exporter.    *)
(*                                                                         *)
(* Python strings are sequences of one-character strings, so that strip,   *)
(* split, lower and the substring test "key in tag" are computed and not   *)
(* assumed.  Python floats are integers counting tenths (1 is 0.1, -5 is   *)
(* -0.5); the values used stay on that grid.  A JSON value is a record     *)
(* with a kind k; "absent" is a key that the object does not carry.        *)
(***************************************************************************)
EXTENDS Integers, Sequences, FiniteSets, TLC

\* ---- bounds of the model ----
NumQueries == 3        \* length of the prefix of DEFAULT_QUERIES_TR that is run
MaxRecs == 2           \* most records in one response
MaxStr == 2            \* longest generated string handed to to_float
MaxBrand == 3          \* longest generated brands field
MaxTags == 2           \* most entries in one categories_tags list (SpecCat)

\* ---- strings ----
Whitespace == {" ", "\t", "\n"}

SetMin(S) == CHOOSE x \in S : \A y \in S : x <= y
SetMax(S) == CHOOSE x \in S : \A y \in S : y <= x

\* str.strip()
strip(s) ==
  LET keep == {i \in 1..Len(s) : s[i] \notin Whitespace}
  IN  IF keep = {} THEN <<>> ELSE SubSeq(s, SetMin(keep), SetMax(keep))

\* str.split(sep): the parts between the separators, empty parts included
RECURSIVE SplitFrom(_, _, _)
SplitFrom(s, sep, start) ==
  LET hits == {i \in start..Len(s) : s[i] = sep}
  IN  IF hits = {} THEN <<SubSeq(s, start, Len(s))>>
      ELSE <<SubSeq(s, start, SetMin(hits) - 1)>> \o SplitFrom(s, sep, SetMin(hits) + 1)

split(s, sep) == SplitFrom(s, sep, 1)

UpperToLower ==
  [c \in {"A","B","C","D","E","F","G","H","I","J","K","L","M",
          "N","O","P","Q","R","S","T","U","V","W","X","Y","Z"} |->
     CASE c = "A" -> "a" [] c = "B" -> "b" [] c = "C" -> "c" [] c = "D" -> "d"
       [] c = "E" -> "e" [] c = "F" -> "f" [] c = "G" -> "g" [] c = "H" -> "h"
       [] c = "I" -> "i" [] c = "J" -> "j" [] c = "K" -> "k" [] c = "L" -> "l"
       [] c = "M" -> "m" [] c = "N" -> "n" [] c = "O" -> "o" [] c = "P" -> "p"
       [] c = "Q" -> "q" [] c = "R" -> "r" [] c = "S" -> "s" [] c = "T" -> "t"
       [] c = "U" -> "u" [] c = "V" -> "v" [] c = "W" -> "w" [] c = "X" -> "x"
       [] c = "Y" -> "y" [] c = "Z" -> "z"]

\* str.lower()
lower(s) ==
  [i \in 1..Len(s) |-> IF s[i] \in DOMAIN UpperToLower THEN UpperToLower[s[i]] ELSE s[i]]

\* the test "key == tag" in place of "key in tag"
Contains_exact(key, tag) == key = tag

\* the test "key in tag" on two strings
Contains(key, tag) ==
  \E i \in 1..(Len(tag) - Len(key) + 1) : SubSeq(tag, i, i + Len(key) - 1) = key

\* ---- JSON values as Python sees them ----
Str(s) == [k |-> "str", s |-> s, n |-> 0]
Num(n) == [k |-> "num", s |-> <<>>, n |-> n]
Null == [k |-> "null", s |-> <<>>, n |-> 0]
Absent == [k |-> "absent", s |-> <<>>, n |-> 0]
NaN == [k |-> "nan", s |-> <<>>, n |-> 0]
Infinity == [k |-> "inf", s |-> <<>>, n |-> 0]
NegInfinity == [k |-> "ninf", s |-> <<>>, n |-> 0]
ListValue == [k |-> "list", s |-> <<>>, n |-> 0]     \* a list that is not empty

\* dict.get(key): a missing key reads as None
get(v) == IF v.k = "absent" THEN Null ELSE v

\* Python truth value of a scalar JSON value
Falsy(v) ==
  \/ v.k \in {"absent", "null"}
  \/ v.k = "str" /\ v.s = <<>>
  \/ v.k = "num" /\ v.n = 0

\* ---- Python floats ----
\* kind is "fin" (n counts tenths), "nan", "inf" or "ninf"
Fin(n) == [kind |-> "fin", n |-> n]

\* x <= 0 and x > 0 on floats: both are false of nan
le0(x) == x.kind = "ninf" \/ (x.kind = "fin" /\ x.n <= 0)
gt0(x) == x.kind = "inf" \/ (x.kind = "fin" /\ x.n > 0)

\* math.isnan(f) or math.isinf(f)
NotFinite(x) == x.kind \in {"nan", "inf", "ninf"}

\* ---- to_float ----
DigitVal ==
  [c \in {"0","1","2","3","4","5","6","7","8","9"} |->
     CASE c = "0" -> 0 [] c = "1" -> 1 [] c = "2" -> 2 [] c = "3" -> 3
       [] c = "4" -> 4 [] c = "5" -> 5 [] c = "6" -> 6 [] c = "7" -> 7
       [] c = "8" -> 8 [] c = "9" -> 9]

RECURSIVE DigitsVal(_)
DigitsVal(ds) ==
  IF ds = <<>> THEN 0
  ELSE 10 * DigitsVal(SubSeq(ds, 1, Len(ds) - 1)) + DigitVal[ds[Len(ds)]]

AllDigits(ds) == \A i \in 1..Len(ds) : ds[i] \in DOMAIN DigitVal

\* float(str): surrounding whitespace, a sign, then nan, inf, infinity or a
\* decimal numeral.  Numerals with at most one fractional digit are on the
\* grid of tenths; exponents and longer fractions are outside the model.
NotAFloat == [ok |-> FALSE, kind |-> "err", n |-> 0]

ParseParts(ip, fp, sgn) ==
  IF Len(ip) + Len(fp) >= 1 /\ Len(fp) <= 1 /\ AllDigits(ip) /\ AllDigits(fp)
    THEN [ok |-> TRUE, kind |-> "fin", n |-> sgn * (10 * DigitsVal(ip) + DigitsVal(fp))]
    ELSE NotAFloat

ParseDecimal(body, sgn) ==
  LET dots == {i \in 1..Len(body) : body[i] = "."}
  IN  IF dots = {} THEN ParseParts(body, <<>>, sgn)
      ELSE IF Cardinality(dots) > 1 THEN NotAFloat
      ELSE ParseParts(SubSeq(body, 1, SetMin(dots) - 1),
                      SubSeq(body, SetMin(dots) + 1, Len(body)), sgn)

ParseBody(body, sgn) ==
  IF lower(body) = <<"n","a","n">> THEN [ok |-> TRUE, kind |-> "nan", n |-> 0]
  ELSE IF lower(body) \in {<<"i","n","f">>, <<"i","n","f","i","n","i","t","y">>}
    THEN [ok |-> TRUE, kind |-> IF sgn < 0 THEN "ninf" ELSE "inf", n |-> 0]
  ELSE ParseDecimal(body, sgn)

ParseSigned(t) ==
  IF Len(t) > 0 /\ t[1] \in {"+", "-"}
    THEN ParseBody(SubSeq(t, 2, Len(t)), IF t[1] = "-" THEN -1 ELSE 1)
    ELSE ParseBody(t, 1)

ParseFloat(s) == CHOOSE f \in {ParseSigned(t) : t \in {strip(s)}} : TRUE

\* float(value), line 129: ok is FALSE when it raises (TypeError for None and
\* lists, ValueError for a string that is no numeral)
float_of(value) ==
  CASE value.k = "num" -> [ok |-> TRUE, kind |-> "fin", n |-> value.n]
    [] value.k \in {"nan", "inf", "ninf"} -> [ok |-> TRUE, kind |-> value.k, n |-> 0]
    [] value.k = "str" -> ParseFloat(value.s)
    [] OTHER -> NotAFloat

\* to_float without the test of isnan and isinf
to_float_unchecked(value) ==
  CHOOSE x \in { IF ~f.ok THEN Fin(0) ELSE [kind |-> f.kind, n |-> f.n]
                 : f \in {float_of(value)} } : TRUE

to_float(value) ==
  CHOOSE x \in { IF ~f.ok THEN Fin(0)
                  ELSE IF NotFinite(f) THEN Fin(0)
                  ELSE [kind |-> f.kind, n |-> f.n]
                 : f \in {float_of(value)} } : TRUE

\* ---- f"{x}" of a float ----
DigitChar == <<"0","1","2","3","4","5","6","7","8","9">>

RECURSIVE NatDigits(_)
NatDigits(m) ==
  IF m < 10 THEN <<DigitChar[m + 1]>> ELSE NatDigits(m \div 10) \o <<DigitChar[(m % 10) + 1]>>

FormatFinite(n) ==
  (IF n < 0 THEN <<"-">> ELSE <<>>)
    \o NatDigits((IF n < 0 THEN -n ELSE n) \div 10) \o <<".">> \o NatDigits((IF n < 0 THEN -n ELSE n) % 10)

FormatFloat(x) ==
  CASE x.kind = "nan" -> <<"n","a","n">>
    [] x.kind = "inf" -> <<"i","n","f">>
    [] x.kind = "ninf" -> <<"-","i","n","f">>
    [] OTHER -> FormatFinite(x.n)

\* ---- first_brand ----
\* first_brand without the filter "if b.strip()" of the comprehension
first_brand_unfiltered(brands_field) ==
  IF brands_field = <<>> THEN <<>>
  ELSE CHOOSE first \in
         { strip(raw[1]) : raw \in {split(field, ",") : field \in {brands_field}} } : TRUE

first_brand(brands_field) ==
  IF brands_field = <<>> THEN <<>>
  ELSE CHOOSE first \in
         { LET parts == SelectSeq([i \in 1..Len(raw) |-> strip(raw[i])], LAMBDA p : p # <<>>)
           IN  IF parts # <<>> THEN parts[1] ELSE <<>>
           : raw \in {split(field, ",") : field \in {brands_field}} } : TRUE

c_meat == <<"m","e","a","t">>
c_dairy == <<"d","a","i","r","y">>
c_grains == <<"g","r","a","i","n","s">>
c_bakery == <<"b","a","k","e","r","y">>
c_vegetables == <<"v","e","g","e","t","a","b","l","e","s">>
c_fruits == <<"f","r","u","i","t","s">>
c_nuts == <<"n","u","t","s">>
c_beverages == <<"b","e","v","e","r","a","g","e","s">>
c_snacks == <<"s","n","a","c","k","s">>
c_desserts == <<"d","e","s","s","e","r","t","s">>
c_condiments == <<"c","o","n","d","i","m","e","n","t","s">>
c_seafood == <<"s","e","a","f","o","o","d">>
c_fastfood == <<"f","a","s","t","f","o","o","d">>
c_turkish == <<"t","u","r","k","i","s","h">>
c_other == <<"o","t","h","e","r">>

CATEGORY_MAP ==
  << [key |-> <<"m","e","a","t">>, value |-> c_meat],
     [key |-> <<"b","e","e","f">>, value |-> c_meat],
     [key |-> <<"p","o","u","l","t","r","y">>, value |-> c_meat],
     [key |-> <<"c","h","i","c","k","e","n">>, value |-> c_meat],
     [key |-> <<"t","u","r","k","e","y">>, value |-> c_meat],
     [key |-> <<"l","a","m","b">>, value |-> c_meat],
     [key |-> <<"p","o","r","k">>, value |-> c_meat],
     [key |-> <<"d","a","i","r","y">>, value |-> c_dairy],
     [key |-> <<"m","i","l","k">>, value |-> c_dairy],
     [key |-> <<"c","h","e","e","s","e">>, value |-> c_dairy],
     [key |-> <<"y","o","g","u","r","t">>, value |-> c_dairy],
     [key |-> <<"g","r","a","i","n">>, value |-> c_grains],
     [key |-> <<"c","e","r","e","a","l">>, value |-> c_grains],
     [key |-> <<"r","i","c","e">>, value |-> c_grains],
     [key |-> <<"p","a","s","t","a">>, value |-> c_grains],
     [key |-> <<"b","r","e","a","d">>, value |-> c_bakery],
     [key |-> <<"b","a","k","e","r","y">>, value |-> c_bakery],
     [key |-> <<"v","e","g","e","t","a","b","l","e">>, value |-> c_vegetables],
     [key |-> <<"l","e","g","u","m","e">>, value |-> c_vegetables],
     [key |-> <<"s","a","l","a","d">>, value |-> c_vegetables],
     [key |-> <<"f","r","u","i","t">>, value |-> c_fruits],
     [key |-> <<"n","u","t">>, value |-> c_nuts],
     [key |-> <<"b","e","v","e","r","a","g","e">>, value |-> c_beverages],
     [key |-> <<"d","r","i","n","k">>, value |-> c_beverages],
     [key |-> <<"j","u","i","c","e">>, value |-> c_beverages],
     [key |-> <<"s","n","a","c","k">>, value |-> c_snacks],
     [key |-> <<"c","o","n","f","e","c","t","i","o","n","e","r","y">>, value |-> c_snacks],
     [key |-> <<"c","h","o","c","o","l","a","t","e">>, value |-> c_snacks],
     [key |-> <<"s","w","e","e","t">>, value |-> c_desserts],
     [key |-> <<"d","e","s","s","e","r","t">>, value |-> c_desserts],
     [key |-> <<"s","a","u","c","e">>, value |-> c_condiments],
     [key |-> <<"c","o","n","d","i","m","e","n","t">>, value |-> c_condiments],
     [key |-> <<"s","e","a","f","o","o","d">>, value |-> c_seafood],
     [key |-> <<"f","i","s","h">>, value |-> c_seafood],
     [key |-> <<"f","a","s","t","-","f","o","o","d">>, value |-> c_fastfood],
     [key |-> <<"t","u","r","k","i","s","h","-","c","u","i","s","i","n","e">>, value |-> c_turkish] >>

Categories ==
  {c_meat, c_dairy, c_grains, c_bakery, c_vegetables, c_fruits, c_nuts, c_beverages,
   c_snacks, c_desserts, c_condiments, c_seafood, c_fastfood, c_turkish, c_other}

\* ---- map_category ----
\* A categories_tags value: k is "absent", "null", "list", "str" or "num";
\* items are the entries of a list, or the characters of a string.
TagList(items) == [k |-> "list", items |-> items]
TagsAbsent == [k |-> "absent", items |-> <<>>]
TagsNull == [k |-> "null", items |-> <<>>]
TagsNumber == [k |-> "num", items |-> <<>>]
TagsString(s) == [k |-> "str", items |-> [i \in 1..Len(s) |-> Str(<<s[i]>>)]]

TagsFalsy(t) == t.k \in {"absent", "null"} \/ (t.k \in {"list", "str"} /\ t.items = <<>>)

Ret(v) == [exc |-> "none", value |-> v]
Raise(e) == [exc |-> e, value |-> <<>>]

\* the inner loop: for key, value in CATEGORY_MAP.items()
RECURSIVE ScanKeys(_, _)
ScanKeys(tag, k) ==
  IF k > Len(CATEGORY_MAP) THEN <<>>
  ELSE IF Contains(CATEGORY_MAP[k].key, tag) THEN CATEGORY_MAP[k].value
  ELSE ScanKeys(tag, k + 1)

\* the outer loop without the final return "other": the function returns None
RECURSIVE ScanTags_no_default(_, _)
ScanTags_no_default(tags, i) ==
  IF i > Len(tags) THEN <<>>
  ELSE LET hit == ScanKeys(tags[i], 1)
       IN  IF hit # <<>> THEN hit ELSE ScanTags_no_default(tags, i + 1)

\* the two loops exchanged: for each keyword, for each tag
ScanTags_key_major(tags, i) ==
  LET hits == {k \in 1..Len(CATEGORY_MAP) :
                 \E t \in i..Len(tags) : Contains(CATEGORY_MAP[k].key, tags[t])}
  IN  IF hits = {} THEN c_other ELSE CATEGORY_MAP[SetMin(hits)].value

\* the outer loop: for tag in tags
RECURSIVE ScanTags(_, _)
ScanTags(tags, i) ==
  IF i > Len(tags) THEN c_other
  ELSE LET hit == ScanKeys(tags[i], 1)
       IN  IF hit # <<>> THEN hit ELSE ScanTags(tags, i + 1)

map_category(categories_tags) ==
  IF TagsFalsy(categories_tags) THEN Ret(c_other)
  ELSE IF categories_tags.k = "num" THEN Raise("TypeError")
  ELSE IF \E i \in 1..Len(categories_tags.items) : categories_tags.items[i].k # "str"
    THEN Raise("AttributeError")
  ELSE CHOOSE r \in
         { Ret(ScanTags(tags, 1))
           : tags \in {[i \in 1..Len(categories_tags.items) |-> lower(categories_tags.items[i].s)]} } : TRUE

\* ---- raw candidate records ----
NutKeys == {"energy-kcal_100g", "proteins_100g", "carbohydrates_100g", "fat_100g"}

Nut(kcal, prot, carb, fat) ==
  [k |-> "dict",
   d |-> ("energy-kcal_100g" :> kcal @@ "proteins_100g" :> prot @@
          "carbohydrates_100g" :> carb @@ "fat_100g" :> fat)]
NutAbsent == [k |-> "absent", d |-> [key \in NutKeys |-> Absent]]
NutNull == [k |-> "null", d |-> [key \in NutKeys |-> Absent]]
NutList == [k |-> "list", d |-> [key \in NutKeys |-> Absent]]

NutFalsy(v) == v.k \in {"absent", "null"} \/ (v.k = "dict" /\ \A key \in NutKeys : v.d[key].k = "absent")

Rec(code, product_name, brands, nutriments, categories_tags) ==
  [code |-> code, product_name |-> product_name, brands |-> brands,
   nutriments |-> nutriments, categories_tags |-> categories_tags]

\* ---- main: the body of "for p in products" ----
Skip == [outcome |-> "skip", exc |-> "none", line |-> 0, code |-> <<>>, row |-> <<>>]
Raised(e, line) == [outcome |-> "raise", exc |-> e, line |-> line, code |-> <<>>, row |-> <<>>]
Appended(code, row) == [outcome |-> "append", exc |-> "none", line |-> 0, code |-> code, row |-> row]

\* or_strip without the call of strip()
or_nostrip(v) ==
  IF Falsy(get(v)) THEN [ok |-> TRUE, s |-> <<>>]
  ELSE IF v.k # "str" THEN [ok |-> FALSE, s |-> <<>>]
  ELSE [ok |-> TRUE, s |-> v.s]

\* (value or "").strip() : None when the value is truthy and not a string
or_strip(v) ==
  IF Falsy(get(v)) THEN [ok |-> TRUE, s |-> <<>>]
  ELSE IF v.k # "str" THEN [ok |-> FALSE, s |-> <<>>]
  ELSE [ok |-> TRUE, s |-> strip(v.s)]

\* skip_code without the test against seen
skip_code_empty_only(code, seenSet) == code = <<>>

\* line 157: "if not code or code in seen"
skip_code(code, seenSet) == code = <<>> \/ code \in seenSet

\* the macro gate as its comment words it: "Require at least calories"
all_blank_kcal_only(kcal, prot, carb, fat) == le0(kcal)

\* line 167: the macro gate
all_blank(kcal, prot, carb, fat) == le0(kcal) /\ (le0(prot) /\ le0(carb) /\ le0(fat))

\* the name gate left out
missing_name_never(name) == FALSE

\* line 171: "if not name"
missing_name(name) == name = <<>>

\* the row with the protein and carbohydrate fields in each other's column
row_of_swapped(name, brand, kcal, prot, carb, fat, category) ==
  <<name, name, brand, FormatFloat(kcal), FormatFloat(carb), FormatFloat(prot),
    FormatFloat(fat), category>>

\* lines 178-187: the list appended to rows
row_of(name, brand, kcal, prot, carb, fat, category) ==
  <<name, name, brand, FormatFloat(kcal), FormatFloat(prot), FormatFloat(carb),
    FormatFloat(fat), category>>

loop_body(p, seenSet) ==
  LET c == or_strip(p.code)
      code == c.s
      nutr == IF NutFalsy(p.nutriments) THEN NutAbsent.d ELSE p.nutriments.d
      kcal == to_float(get(nutr["energy-kcal_100g"]))
      prot == to_float(get(nutr["proteins_100g"]))
      carb == to_float(get(nutr["carbohydrates_100g"]))
      fat == to_float(get(nutr["fat_100g"]))
      nm == or_strip(p.product_name)
      name == nm.s
      b == or_strip(p.brands)
      brand == first_brand(b.s)
      categories_tags == IF TagsFalsy(p.categories_tags) THEN TagList(<<>>) ELSE p.categories_tags
      category == map_category(categories_tags)
  IN  IF ~c.ok THEN Raised("AttributeError", 155)
      ELSE IF skip_code(code, seenSet) THEN Skip
      ELSE IF ~NutFalsy(p.nutriments) /\ p.nutriments.k # "dict" THEN Raised("AttributeError", 161)
      ELSE IF all_blank(kcal, prot, carb, fat) THEN Skip
      ELSE IF ~nm.ok THEN Raised("AttributeError", 170)
      ELSE IF missing_name(name) THEN Skip
      ELSE IF ~b.ok THEN Raised("AttributeError", 174)
      ELSE IF category.exc # "none" THEN Raised(category.exc, 100)
      ELSE Appended(code, row_of(name, brand, kcal, prot, carb, fat, category.value))

\* ---- fetch_off_search ----
\* What the server answers to one search request.  net is "error" when the
\* connection fails or times out; body is "not_json", "array" (valid JSON that
\* is not an object) or "object"; products is the value under "products".
ProductList(items) == [k |-> "list", items |-> items]
ProductsAbsent == [k |-> "absent", items |-> <<>>]
ProductsNull == [k |-> "null", items |-> <<>>]

Response(net, status, body, products) ==
  [net |-> net, status |-> status, body |-> body, products |-> products]

fetch_off_search(resp) ==
  IF resp.net = "error" THEN Raise("URLError")
  ELSE IF resp.status < 200 \/ resp.status >= 300 THEN Raise("HTTPError")
  ELSE IF resp.body = "not_json" THEN Raise("JSONDecodeError")
  ELSE IF resp.body # "object" THEN Raise("AttributeError")
  ELSE IF resp.products.k = "absent" THEN Ret(ProductList(<<>>))
  ELSE Ret(resp.products)

\* ---- the product catalogue the server draws its answers from ----
s_X1 == <<"X","1">>
s_X1_padded == <<" ","X","1"," ">>
s_X2 == <<"X","2">>
s_X3 == <<"X","3">>
s_blank == <<" "," ">>
s_Egg == <<"E","g","g">>
s_Egg_B == <<" ","E","g","g"," ","B">>
s_Milk == <<"M","i","l","k">>
s_Rice == <<"R","i","c","e">>
s_brands_AB == <<"A",",","B">>
s_brands_Foo == <<" ",","," ",",","F","o","o",",","B","a","r">>
s_brand_C == <<"C">>
s_0_1 == <<"0",".","1">>
s_0_5 == <<"0",".","5">>
s_abc == <<"a","b","c">>
s_inf == <<"i","n","f">>
s_minus_inf == <<"-","i","n","f">>
s_Infinity == <<"I","n","f","i","n","i","t","y">>
s_NaN == <<"N","a","N">>
s_12_5_padded == <<" ","1","2",".","5"," ">>
s_plus_5 == <<"+",".","5">>
s_1_2_3 == <<"1",".","2",".","3">>
t_chicken_breast == <<"e","n",":","c","h","i","c","k","e","n","-","b","r","e","a","s","t">>
t_unknown_thing == <<"e","n",":","u","n","k","n","o","w","n","-","t","h","i","n","g">>
t_Fish_Pasta == <<"e","n",":","F","i","s","h","-","P","a","s","t","a">>
t_milk_chocolate == <<"e","n",":","m","i","l","k","-","c","h","o","c","o","l","a","t","e">>
t_BEEF == <<"e","n",":","B","E","E","F">>
t_ayran == <<"t","r",":","a","y","r","a","n">>
HEADER ==
  << <<"n","a","m","e","E","N">>,
     <<"n","a","m","e","T","R">>,
     <<"b","r","a","n","d">>,
     <<"c","a","l","o","r","i","e","s">>,
     <<"p","r","o","t","e","i","n">>,
     <<"c","a","r","b","s">>,
     <<"f","a","t">>,
     <<"c","a","t","e","g","o","r","y">> >>

Positive == Nut(Num(10), Num(1), Num(20), Str(s_0_5))

\* records of the same barcodes that differ in every other field, and a record
\* the macro gate rejects
PoolDedup ==
  { Rec(Str(s_X1), Str(s_Egg), Str(s_brands_AB), Positive, TagList(<<Str(t_chicken_breast)>>)),
    Rec(Str(s_X1_padded), Str(s_Egg_B), Str(s_brands_Foo),
        Nut(Num(0), Str(s_0_1), Num(0), Num(0)), TagList(<<Str(t_unknown_thing)>>)),
    Rec(Str(s_X2), Str(s_Milk), Absent, Nut(Num(0), Num(0), Num(0), Num(0)), TagsAbsent),
    Rec(Str(s_X2), Str(s_Milk), Null, Nut(Num(-5), Num(1), Null, Str(s_abc)),
        TagList(<<Str(t_Fish_Pasta), Str(t_milk_chocolate)>>)) }

\* records without a usable name or barcode, next to one that has both
PoolNames ==
  { Rec(Str(s_X3), Absent, Str(s_brand_C), Positive, TagsAbsent),
    Rec(Str(s_X3), Null, Str(s_brand_C), Positive, TagsAbsent),
    Rec(Str(s_X3), Str(<<>>), Str(s_brand_C), Positive, TagsAbsent),
    Rec(Str(s_X3), Str(s_blank), Str(s_brand_C), Positive, TagsAbsent),
    Rec(Str(s_X3), Str(s_Rice), Str(<<>>), Nut(NaN, Str(s_inf), Num(25), Absent), TagsNull),
    Rec(Absent, Str(s_Egg), Str(s_brand_C), Positive, TagsAbsent),
    Rec(Str(s_blank), Str(s_Egg), Str(s_brand_C), Positive, TagsAbsent) }

\* records whose fields are null or have a type the code does not expect
PoolShapes ==
  { Rec(Str(s_X1), Str(s_Egg), Str(s_brands_AB), Positive, TagList(<<Str(t_chicken_breast)>>)),
    Rec(Str(s_X1), Str(s_Egg), Str(s_brand_C), NutNull, TagsAbsent),
    Rec(Num(123), Str(s_Egg), Str(s_brand_C), Positive, TagsAbsent),
    Rec(Str(s_X2), Str(s_Milk), Str(s_brand_C), NutList, TagsAbsent),
    Rec(Str(s_X1), Str(s_Milk), Num(7), Positive, TagsAbsent),
    Rec(Str(s_X2), Str(s_Milk), Str(s_brand_C), Positive, TagList(<<Num(5)>>)),
    Rec(Str(s_X2), Str(s_Milk), Str(s_brand_C), Positive, TagsNumber) }

\* ---- state ----
VARIABLES
  env,        \* which catalogue the server holds
  pc,         \* position in main: "fetch", "loop", "sleep", "write", "done", "crashed"
  idx,        \* index of the current query term (1-based; enumerate counts from 0)
  products,   \* value returned by fetch_off_search for the current term
  j,          \* position of the iterator of "for p in products"
  seen,       \* set of barcodes already accepted
  rows,       \* accumulated rows
  warnings,   \* number of "WARN: query ... failed" lines printed
  exc,        \* the exception that left main, and the line that raised it
  out,        \* content of the file at args.out, as a sequence of rows of fields
  summary,    \* row count printed by "DONE: wrote ..." (-1 before)
  last_resp,  \* shape of the response to the latest request
  rowSrc,     \* history: for each row, the barcode and the raw record it came from
  firstAcc,   \* history: for each barcode, the first acceptable record processed
  reqs,       \* history: the indices of the terms requested so far, in order
  slept,      \* history: time.sleep(0.5) has run since the latest request
  writes,     \* history: number of times the file at args.out was written
  specRows,   \* the rows accumulated by the order "normalize, then test seen"
  specSeen    \* the identifiers accepted by the order "normalize, then test seen"

vars == <<env, pc, idx, products, j, seen, rows, warnings, exc, out, summary,
          last_resp, rowSrc, firstAcc, reqs, slept, writes, specRows, specSeen>>

RECURSIVE SeqsUpTo(_, _)
SeqsUpTo(S, n) ==
  IF n = 0 THEN {<<>>}
  ELSE LET shorter == SeqsUpTo(S, n - 1)
       IN  shorter \cup {Append(s, x) : s \in {t \in shorter : Len(t) = n - 1}, x \in S}

TagRecord(tags) == Rec(Str(s_X1), Str(s_Egg), Str(s_brands_AB), Positive, tags)

\* a record whose energy value is v and whose protein keeps it past the macro gate
FloatRecord(v) ==
  Rec(Str(s_X1), Str(s_Egg), Str(s_brands_AB), Nut(v, Num(1), Num(20), Str(s_0_5)), TagsAbsent)

\* a record whose brands field is v
BrandRecord(v) == Rec(Str(s_X1), Str(s_Egg), v, Positive, TagsAbsent)

Catalog(e) ==
  CASE e.k = "dedup" -> PoolDedup
    [] e.k = "names" -> PoolNames
    [] e.k = "shapes" -> PoolShapes
    [] e.k = "tags" -> {TagRecord(e.tags)}
    [] e.k = "float" -> {FloatRecord(e.v)}
    [] e.k = "brand" -> {BrandRecord(e.v)}

Responses(e) ==
  { Response("error", 0, "none", ProductsAbsent),
    Response("ok", 404, "none", ProductsAbsent),
    Response("ok", 200, "not_json", ProductsAbsent),
    Response("ok", 200, "array", ProductsAbsent),
    Response("ok", 200, "object", ProductsAbsent),
    Response("ok", 200, "object", ProductsNull) }
  \cup {Response("ok", 200, "object", ProductList(items)) : items \in SeqsUpTo(Catalog(e), MaxRecs)}

Shape(resp) == [net |-> resp.net, status |-> resp.status, body |-> resp.body, products |-> resp.products.k]
NoResponse == [net |-> "none", status |-> 0, body |-> "none", products |-> "absent"]

NoExc == [type |-> "none", line |-> 0]
PreviousContent == <<HEADER, <<s_Rice, s_Rice, <<>>, s_0_5, s_0_5, s_0_5, s_0_5, c_grains>>>>
Env(k, tags) == [k |-> k, tags |-> tags, v |-> Null]
FloatEnv(v) == [k |-> "float", tags |-> TagsAbsent, v |-> v]
BrandEnv(v) == [k |-> "brand", tags |-> TagsAbsent, v |-> v]

InitRun ==
  /\ pc = "fetch" /\ idx = 1
  /\ products = ProductList(<<>>) /\ j = 1
  /\ seen = {} /\ rows = <<>>
  /\ warnings = 0 /\ exc = NoExc
  /\ out = PreviousContent /\ summary = -1
  /\ last_resp = NoResponse
  /\ rowSrc = <<>> /\ firstAcc = {}
  /\ reqs = <<>> /\ slept = FALSE /\ writes = 0
  /\ specRows = <<>> /\ specSeen = {}

Init ==
  /\ env \in {Env("dedup", TagsAbsent), Env("names", TagsAbsent), Env("shapes", TagsAbsent)}
  /\ InitRun

AfterTerm == IF idx + 1 > NumQueries THEN "write" ELSE "fetch"

\* rows.insert(0, row) in place of rows.append(row)
rows_prepend(rs, row) == <<row>> \o rs

\* rows.append(row)
rows_append(rs, row) == Append(rs, row)

\* the loop body without seen.add(code)
add_seen_never(seenSet, code) == seenSet

\* seen = {code} in place of seen.add(code)
add_seen_replace(seenSet, code) == {code}

\* seen.add(code)
add_seen(seenSet, code) == seenSet \cup {code}

\* FetchTerm that requests the same term again after a failure
FetchTerm_retry ==
  /\ pc = "fetch"
  /\ \E resp \in Responses(env) :
       LET r == fetch_off_search(resp)
       IN  /\ last_resp' = Shape(resp)
           /\ IF r.exc # "none"
                THEN /\ warnings' = warnings + 1
                     /\ pc' = "fetch"
                     /\ UNCHANGED <<products, j, idx>>
                ELSE /\ products' = r.value
                     /\ j' = 1
                     /\ pc' = "loop"
                     /\ UNCHANGED <<warnings, idx>>
  /\ reqs' = Append(reqs, idx) /\ slept' = FALSE
  /\ UNCHANGED <<env, seen, rows, exc, out, summary, rowSrc, firstAcc, writes,
                 specRows, specSeen>>

\* FetchTerm with "break" in place of "continue" in the except clause
FetchTerm_break ==
  /\ pc = "fetch"
  /\ \E resp \in Responses(env) :
       LET r == fetch_off_search(resp)
       IN  /\ last_resp' = Shape(resp)
           /\ IF r.exc # "none"
                THEN /\ warnings' = warnings + 1
                     /\ pc' = "write"
                     /\ UNCHANGED <<products, j, idx>>
                ELSE /\ products' = r.value
                     /\ j' = 1
                     /\ pc' = "loop"
                     /\ UNCHANGED <<warnings, idx>>
  /\ reqs' = Append(reqs, idx) /\ slept' = FALSE
  /\ UNCHANGED <<env, seen, rows, exc, out, summary, rowSrc, firstAcc, writes,
                 specRows, specSeen>>

\* lines 147-152: request the current term; on any exception warn and continue
FetchTerm ==
  /\ pc = "fetch"
  /\ \E resp \in Responses(env) :
       LET r == fetch_off_search(resp)
       IN  /\ last_resp' = Shape(resp)
           /\ IF r.exc # "none"
                THEN /\ warnings' = warnings + 1
                     /\ idx' = idx + 1
                     /\ pc' = AfterTerm
                     /\ UNCHANGED <<products, j>>
                ELSE /\ products' = r.value
                     /\ j' = 1
                     /\ pc' = "loop"
                     /\ UNCHANGED <<warnings, idx>>
  /\ reqs' = Append(reqs, idx) /\ slept' = FALSE
  /\ UNCHANGED <<env, seen, rows, exc, out, summary, rowSrc, firstAcc, writes,
                 specRows, specSeen>>

\* history of the first acceptable record of each barcode
Acceptable(p) == loop_body(p, {}).outcome = "append"
NoteFirst(fa, p) ==
  LET alone == loop_body(p, {})
  IN  IF alone.outcome = "append" /\ ~(\E e \in fa : e.code = alone.code)
        THEN fa \cup {[code |-> alone.code, p |-> p]}
        ELSE fa

\* lines 154-188: one step of "for p in products"
\* "normalize, then test seen": the record goes through the gates and the
\* construction of the row first; the identifier of an accepted record is then
\* looked up
spec_order_body(p, seenSet) ==
  CHOOSE r \in { IF n.outcome = "append" /\ n.code \in seenSet THEN Skip ELSE n
                 : n \in {loop_body(p, {})} } : TRUE

\* one record in that order, on the accumulators of that order
SpecOrderStep(p) ==
  \E n \in {spec_order_body(p, specSeen)} :
    IF n.outcome = "append"
      THEN specRows' = Append(specRows, n.row) /\ specSeen' = specSeen \cup {n.code}
      ELSE UNCHANGED <<specRows, specSeen>>

\* ForProduct with seen.add(code) moved up to the test of seen, before the gates
ForProduct_add_at_test ==
  /\ pc = "loop"
  /\ IF products.k # "list"
       THEN /\ pc' = "crashed"
            /\ exc' = [type |-> "TypeError", line |-> 154]
            /\ UNCHANGED <<products, j, seen, rows, rowSrc, firstAcc, specRows, specSeen>>
       ELSE IF j > Len(products.items)
       THEN /\ pc' = "sleep"
            /\ products' = ProductList(<<>>)   \* the list is not read again
            /\ j' = 1
            /\ UNCHANGED <<seen, rows, exc, rowSrc, firstAcc, specRows, specSeen>>
       ELSE \E p \in {products.items[j]} : \E r \in {loop_body(p, seen)} :
                /\ j' = j + 1
                /\ products' = products
                /\ firstAcc' = NoteFirst(firstAcc, p)
                /\ SpecOrderStep(p)
                /\ CASE r.outcome = "raise" ->
                          /\ pc' = "crashed"
                          /\ exc' = [type |-> r.exc, line |-> r.line]
                          /\ UNCHANGED <<seen, rows, rowSrc>>
                     [] r.outcome = "skip" ->
                          /\ seen' = IF p.code.k = "str" /\ strip(p.code.s) # <<>>
                                      THEN seen \cup {strip(p.code.s)} ELSE seen
                          /\ UNCHANGED <<pc, exc, rows, rowSrc>>
                     [] r.outcome = "append" ->
                          /\ rows' = rows_append(rows, r.row)
                          /\ seen' = add_seen(seen, r.code)
                          /\ rowSrc' = Append(rowSrc, [code |-> r.code, p |-> p, term |-> idx])
                          /\ UNCHANGED <<pc, exc>>
  /\ UNCHANGED <<env, idx, warnings, out, summary, last_resp, reqs, slept, writes>>

ForProduct ==
  /\ pc = "loop"
  /\ IF products.k # "list"
       THEN /\ pc' = "crashed"
            /\ exc' = [type |-> "TypeError", line |-> 154]
            /\ UNCHANGED <<products, j, seen, rows, rowSrc, firstAcc, specRows, specSeen>>
       ELSE IF j > Len(products.items)
       THEN /\ pc' = "sleep"
            /\ products' = ProductList(<<>>)   \* the list is not read again
            /\ j' = 1
            /\ UNCHANGED <<seen, rows, exc, rowSrc, firstAcc, specRows, specSeen>>
       ELSE \E p \in {products.items[j]} : \E r \in {loop_body(p, seen)} :
                /\ j' = j + 1
                /\ products' = products
                /\ firstAcc' = NoteFirst(firstAcc, p)
                /\ SpecOrderStep(p)
                /\ CASE r.outcome = "raise" ->
                          /\ pc' = "crashed"
                          /\ exc' = [type |-> r.exc, line |-> r.line]
                          /\ UNCHANGED <<seen, rows, rowSrc>>
                     [] r.outcome = "skip" ->
                          UNCHANGED <<pc, exc, seen, rows, rowSrc>>
                     [] r.outcome = "append" ->
                          /\ rows' = rows_append(rows, r.row)
                          /\ seen' = add_seen(seen, r.code)
                          /\ rowSrc' = Append(rowSrc, [code |-> r.code, p |-> p, term |-> idx])
                          /\ UNCHANGED <<pc, exc>>
  /\ UNCHANGED <<env, idx, warnings, out, summary, last_resp, reqs, slept, writes>>

Sleep ==
  /\ pc = "sleep"
  /\ idx' = idx + 1
  /\ pc' = AfterTerm
  /\ slept' = TRUE
  /\ UNCHANGED <<env, products, j, seen, rows, warnings, exc, out, summary,
                 last_resp, rowSrc, firstAcc, reqs, writes, specRows, specSeen>>

\* lines 193-199: write the table and print the summary
\* WriteCSV with open(args.out, "a") in place of open(args.out, "w")
WriteCSV_append ==
  /\ pc = "write"
  /\ out' = out \o <<HEADER>> \o rows
  /\ summary' = Len(rows)
  /\ pc' = "done"
  /\ writes' = writes + 1
  /\ UNCHANGED <<env, idx, products, j, seen, rows, warnings, exc, last_resp,
                 rowSrc, firstAcc, reqs, slept, specRows, specSeen>>

\* WriteCSV that leaves the destination alone when there are no rows
WriteCSV_skip_empty ==
  /\ pc = "write"
  /\ out' = IF rows = <<>> THEN out ELSE <<HEADER>> \o rows
  /\ summary' = Len(rows)
  /\ pc' = "done"
  /\ writes' = writes + 1
  /\ UNCHANGED <<env, idx, products, j, seen, rows, warnings, exc, last_resp,
                 rowSrc, firstAcc, reqs, slept, specRows, specSeen>>

WriteCSV ==
  /\ pc = "write"
  /\ out' = <<HEADER>> \o rows
  /\ summary' = Len(rows)
  /\ pc' = "done"
  /\ writes' = writes + 1
  /\ UNCHANGED <<env, idx, products, j, seen, rows, warnings, exc, last_resp,
                 rowSrc, firstAcc, reqs, slept, specRows, specSeen>>

Next == FetchTerm \/ ForProduct \/ Sleep \/ WriteCSV

Spec == Init /\ [][Next]_vars

\* ---- the classifier on its own: the server holds one record with chosen tags ----
\* the run under the assumption that a request returns or fails within its
\* timeout and that no step of the single thread is held up for ever
SpecFair == Init /\ [][Next]_vars /\ WF_vars(Next)

\* the run under the assumption that the write at lines 194-199, once reached,
\* is not held up for ever
SpecWrite == Init /\ [][Next]_vars /\ WF_vars(WriteCSV)

TagPool ==
  {Str(t_chicken_breast), Str(t_unknown_thing), Str(t_Fish_Pasta), Str(t_BEEF), Str(t_ayran)}

TagInputs ==
  {TagsAbsent, TagsNull, TagsNumber, TagsString(c_meat)}
  \cup {TagList(items) : items \in SeqsUpTo(TagPool, MaxTags)}

CatInit == env \in {Env("tags", t) : t \in TagInputs} /\ InitRun

SpecCat == CatInit /\ [][Next]_vars

\* ---- the run over one record whose energy value is drawn from the inputs of to_float ----
FloatChars == {"1", "-", "+", " ", "x"}
FloatInputs ==
  {Null, Absent, NaN, Infinity, NegInfinity, ListValue, Num(0), Num(1), Num(10), Num(-5)}
  \cup {Str(s) : s \in SeqsUpTo(FloatChars, MaxStr)}
  \cup {Str(s_abc), Str(s_inf), Str(s_minus_inf), Str(s_Infinity), Str(s_NaN),
        Str(s_0_1), Str(s_12_5_padded), Str(s_plus_5), Str(s_1_2_3)}

\* ---- the run over one record whose brands field is drawn from the inputs of first_brand ----
BrandChars == {",", " ", "F", "b"}
BrandInputs ==
  {Absent, Null}
  \cup {Str(s) : s \in SeqsUpTo(BrandChars, MaxBrand)}
  \cup {Str(s_brands_AB), Str(s_brands_Foo)}

BrandInit == env \in {BrandEnv(v) : v \in BrandInputs} /\ InitRun
SpecBrand == BrandInit /\ [][Next]_vars

FloatInit == env \in {FloatEnv(v) : v \in FloatInputs} /\ InitRun
SpecFloat == FloatInit /\ [][Next]_vars


\* ---- properties ----
IdOf(p) == strip(p.code.s)
RowIds == [i \in 1..Len(rowSrc) |-> IdOf(rowSrc[i].p)]

\* C1: no product identifier (the trimmed code) contributes more than one row,
\* in the accumulated rows of every state and in the table that is written.
C1_OneRowPerIdentifier ==
  /\ Len(rowSrc) = Len(rows)
  /\ \A a, b \in 1..Len(rows) : a # b => RowIds[a] # RowIds[b]
  /\ pc = "done" => out = <<HEADER>> \o rows

\* a response that repeats an identifier has been processed, after an earlier
\* term had already produced the row of that identifier
C1_Witness ==
  /\ pc = "loop" /\ idx >= 2 /\ products.k = "list" /\ j = 3
  /\ Len(rows) = 1 /\ rowSrc[1].p # products.items[1]
  /\ Acceptable(products.items[1]) /\ Acceptable(products.items[2])
  /\ IdOf(products.items[1]) = RowIds[1] /\ IdOf(products.items[2]) = RowIds[1]

\* C2: first seen wins: the one row of an identifier is the normalization of the
\* first acceptable record processed with that identifier; later records with
\* the same identifier neither add a row nor change it.
C2_FirstSeenWins ==
  \A e \in firstAcc :
    LET hits == {i \in 1..Len(rows) : RowIds[i] = e.code}
    IN  /\ Cardinality(hits) = 1
        /\ \A i \in hits : rows[i] = loop_body(e.p, {}).row /\ rowSrc[i].p = e.p

\* the first record of a later term is acceptable, has the identifier of an
\* existing row and normalizes to a row that differs in name, brand, macros and tags
C2_Witness ==
  /\ pc = "loop" /\ idx >= 2 /\ products.k = "list" /\ j = 2
  /\ Acceptable(products.items[1])
  /\ \E e \in firstAcc :
       LET first == loop_body(e.p, {}).row
           later == loop_body(products.items[1], {}).row
       IN  /\ e.code = IdOf(products.items[1])
           /\ first[1] # later[1] /\ first[3] # later[3]
           /\ first[4] # later[4] /\ first[8] # later[8]
           /\ \E i \in 1..Len(rows) : rows[i] = first
           /\ \A i \in 1..Len(rows) : rows[i] # later


\* the request raised inside fetch_off_search: no connection, a status outside
\* 2xx, a body that is not JSON, or JSON that is not an object
Failing(shape) ==
  \/ shape.net = "error"
  \/ shape.status < 200 \/ shape.status >= 300
  \/ shape.body # "object"

\* C3: when the request of a term fails, the term adds no row and no identifier,
\* nothing is raised, and the run goes on with the next term (or, after the last
\* term, with the write); the write is reached only after every term.
C3_FailedTermIsSkipped ==
  /\ [][(pc = "fetch" /\ Failing(last_resp')) =>
          /\ rows' = rows /\ seen' = seen /\ rowSrc' = rowSrc
          /\ exc' = NoExc
          /\ idx' = idx + 1
          /\ pc' = IF idx < NumQueries THEN "fetch" ELSE "write"]_vars
  /\ [](pc \in {"write", "done"} => idx = NumQueries + 1)

\* the first term failed and the second term has produced a row
C3_Witness ==
  /\ pc = "loop" /\ idx = 2 /\ warnings = 1
  /\ Len(rows) = 1 /\ seen = {RowIds[1]}

\* a response that is unsuccessful or malformed: also an object whose products is null
Malformed(shape) == Failing(shape) \/ shape.products = "null"

\* C4: a failed or malformed response is never fatal to the run.
C4_MalformedNeverFatal == Malformed(last_resp) => pc # "crashed"

\* C5: the step on one record ends in accept or reject: no exception raised
\* while a record is normalized leaves the loop.
C5_RecordStepNeverRaises == ~(pc = "crashed" /\ exc.line \in {100, 155, 161, 170, 174})

\* ---- the gates ----
AtRecord == pc = "loop" /\ products.k = "list" /\ j <= Len(products.items)

Sanitized(p) ==
  [key \in NutKeys |->
     to_float(get((IF p.nutriments.k = "dict" THEN p.nutriments.d ELSE NutAbsent.d)[key]))]

HasId(p) == p.code.k = "str" /\ IdOf(p) # <<>>
HasName(p) == p.product_name.k = "str" /\ strip(p.product_name.s) # <<>>
RestWellTyped(p) ==
  /\ p.brands.k \in {"absent", "null", "str"}
  /\ p.categories_tags.k \in {"absent", "null", "list"}
  /\ \A i \in 1..Len(p.categories_tags.items) : p.categories_tags.items[i].k = "str"

\* a decimal numeral of a number above zero
IsPositiveDec(s) == s[1] # "-" /\ \E i \in 1..Len(s) : s[i] \in {"1","2","3","4","5","6","7","8","9"}

C7_NameGate ==
  \A i \in 1..Len(rows) :
    /\ rows[i][1] # <<>> /\ rows[i][2] # <<>>
    /\ HasName(rowSrc[i].p)

\* a record with an identifier, four positive macros and no product_name key was
\* processed first and left no row and no identifier
C7_Witness ==
  /\ pc = "loop" /\ products.k = "list" /\ j = 2
  /\ HasId(products.items[1])
  /\ products.items[1].product_name.k = "absent"
  /\ \A key \in NutKeys : gt0(Sanitized(products.items[1])[key])
  /\ rows = <<>> /\ seen = {}


\* ---- the classifier ----
\* the tags of a record as map_category receives them, lower-cased
LowerTags(p) == [i \in 1..Len(p.categories_tags.items) |-> lower(p.categories_tags.items[i].s)]
KeysIn(tag) == {k \in 1..Len(CATEGORY_MAP) : Contains(CATEGORY_MAP[k].key, tag)}
MatchingTags(p) == {t \in 1..Len(p.categories_tags.items) : KeysIn(LowerTags(p)[t]) # {}}

\* C8: the category of every row is one of the fifteen labels, and it is "other"
\* when the record has no tags, or no tag that contains a keyword (looked at
\* whenever the rows change; they are empty at the start).
C8_ClosedCategorySet ==
  [][rows' # rows =>
       \A i \in 1..Len(rows') :
         /\ rows'[i][8] \in Categories
         /\ (TagsFalsy(rowSrc'[i].p.categories_tags) \/ MatchingTags(rowSrc'[i].p) = {})
              => rows'[i][8] = c_other]_vars

\* a record with two tags, none of which contains a keyword, has given a row
C8_Witness ==
  /\ env.tags = TagList(<<Str(t_ayran), Str(t_unknown_thing)>>)
  /\ Len(rows) = 1 /\ rows[1][8] = c_other

\* C9: the category of a row is the value of the first keyword, in the order of
\* CATEGORY_MAP, contained in the lower-cased form of the first tag, in the order
\* of the tags, that contains any keyword (looked at whenever the rows change).
C9_FirstTagFirstKeyword ==
  [][rows' # rows =>
       \A i \in 1..Len(rows') : \A p \in {rowSrc'[i].p} : \A matching \in {MatchingTags(p)} :
         matching # {} =>
           \A keys \in {KeysIn(LowerTags(p)[SetMin(matching)])} :
             rows'[i][8] = CATEGORY_MAP[SetMin(keys)].value]_vars

\* the first tag matches only through lower-casing and a keyword declared late;
\* the second tag contains a keyword declared earlier; the first tag decides
C9_Witness ==
  /\ env.tags = TagList(<<Str(t_Fish_Pasta), Str(t_BEEF)>>)
  /\ Len(rows) = 1 /\ rows[1][8] = c_grains
  /\ SetMin(KeysIn(lower(t_BEEF))) < SetMin(KeysIn(lower(t_Fish_Pasta)))
  /\ KeysIn(t_Fish_Pasta) = {}

\* C10: with the table of the source, the tags {"en:chicken-breast"} give "meat"
\* and the tags {"en:unknown-thing"} give "other".
C10_ScenarioB ==
  \A i \in 1..Len(rows) :
    /\ rowSrc[i].p.categories_tags = TagList(<<Str(t_chicken_breast)>>) => rows[i][8] = c_meat
    /\ rowSrc[i].p.categories_tags = TagList(<<Str(t_unknown_thing)>>) => rows[i][8] = c_other

\* the record tagged en:chicken-breast has given its row
C10_Witness ==
  /\ env.tags = TagList(<<Str(t_chicken_breast)>>)
  /\ Len(rows) = 1 /\ rowSrc[1].p.categories_tags = env.tags /\ rows[1][8] = c_meat


\* ---- C11 ----
Unknown(v) == ~float_of(v).ok \/ float_of(v).kind # "fin"
s_0_0 == <<"0",".","0">>

\* C11: to_float never fails and always returns a finite number: the energy
\* field of a row is "0.0" when the raw value is null, absent, a string that is
\* no numeral, a value that cannot be coerced, or one that coerces to NaN or to
\* an infinity, and is the coerced value itself in every other case; no run
\* stops inside the four calls of to_float.
C11_ToFloatTotalAndFinite ==
  /\ pc = "crashed" => exc.line \notin 161..164
  /\ \A i \in 1..Len(rows) :
       LET v == get(rowSrc[i].p.nutriments.d["energy-kcal_100g"])
       IN  /\ rows[i][4] \notin {<<"n","a","n">>, <<"i","n","f">>, <<"-","i","n","f">>}
           /\ Unknown(v) => rows[i][4] = s_0_0
           /\ v \in {Null, NaN, Infinity, NegInfinity, ListValue, Str(s_abc), Str(<<>>)}
                => rows[i][4] = s_0_0
           /\ ~Unknown(v) => rows[i][4] = FormatFinite(float_of(v).n)

C11_Witness ==
  /\ env.k = "float" /\ env.v = Str(s_minus_inf)
  /\ Len(rows) = 1 /\ rows[1][4] = s_0_0 /\ rows[1][5] = <<"0",".","1">>


\* ---- C12 ----
\* C12: whatever the responses and failures, the number of accumulated rows is
\* the size of the seen set, every seen identifier being the identifier of
\* exactly one row; at the end of the run the written table has one data row
\* per seen identifier.
C12_RowsMatchSeen ==
  /\ Len(rows) = Cardinality(seen)
  /\ \A c \in seen : Cardinality({i \in 1..Len(rows) : RowIds[i] = c}) = 1
  /\ pc = "done" => Len(out) - 1 = Cardinality(seen) /\ summary = Cardinality(seen)

\* the run has ended after a failed term, with two rows from responses that
\* held more acceptable records than identifiers
C12_Witness ==
  /\ pc = "done" /\ warnings >= 1
  /\ Len(rows) = 2 /\ Cardinality(seen) = 2
  /\ Cardinality({e.p : e \in firstAcc}) = 2


\* ---- C13 ----
\* C13: the accumulated rows are in first-seen order: a step leaves the rows
\* alone or appends one row at the end, the row of the record the iterator is
\* at, and moves the iterator to the next record of the same response; the
\* iterator only moves forward; rows of an earlier term come before rows of a
\* later term.
C13_FirstSeenOrder ==
  /\ [][\/ rows' = rows
        \/ /\ AtRecord
           /\ Len(rows') = Len(rows) + 1
           /\ SubSeq(rows', 1, Len(rows)) = rows
           /\ rows'[Len(rows')] = loop_body(products.items[j], seen).row
           /\ rowSrc'[Len(rows')].p = products.items[j]
           /\ rowSrc'[Len(rows')].term = idx
           /\ j' = j + 1 /\ products' = products /\ idx' = idx]_vars
  /\ [][(pc = "loop" /\ pc' = "loop") => (j' = j + 1 /\ products' = products /\ idx' = idx)]_vars
  /\ [][idx' >= idx]_vars
  /\ [](/\ Len(rowSrc) = Len(rows)
        /\ \A a, b \in 1..Len(rows) : a < b => rowSrc[a].term <= rowSrc[b].term
        /\ \A a \in 1..Len(rows) : rows[a] = loop_body(rowSrc[a].p, {}).row)

\* two different rows, the first from the first term and the second from the
\* second record of a later term, whose first record repeated the first row's
\* identifier
C13_Witness ==
  /\ pc = "loop" /\ products.k = "list" /\ j = 3
  /\ Len(rows) = 2 /\ rows[1] # rows[2]
  /\ rowSrc[1].term = 1 /\ rowSrc[2].term = idx /\ idx > 1
  /\ rowSrc[2].p = products.items[2]
  /\ IdOf(products.items[1]) = RowIds[1]

\* ---- C14 ----
\* C14: between the requests of two consecutive terms the courtesy delay
\* occurs: no term after the first is requested unless time.sleep has run since
\* the request of the term before it, whether that term succeeded or failed.
C14_DelayBetweenTerms ==
  [][(pc = "fetch" /\ idx > 1 /\ reqs' # reqs) => slept]_vars


\* ---- C15 ----
HeaderNames ==
  << <<"n","a","m","e","E","N">>, <<"n","a","m","e","T","R">>, <<"b","r","a","n","d">>,
     <<"c","a","l","o","r","i","e","s">>, <<"p","r","o","t","e","i","n">>,
     <<"c","a","r","b","s">>, <<"f","a","t">>, <<"c","a","t","e","g","o","r","y">> >>

\* C15: the output table is written once, and only after every configured term
\* has been requested and has been processed or has failed; until then the file
\* keeps its previous content; the write replaces that content by the fixed
\* header followed by one row of eight fields per accumulated row, in the
\* accumulated order; nothing is written afterwards.
C15_SingleFinalWrite ==
  /\ [](writes <= 1)
  /\ [](writes = 0 => out = PreviousContent)
  /\ [](pc = "done" => writes = 1)
  /\ [](writes = 1 =>
          /\ idx = NumQueries + 1 /\ reqs = [i \in 1..NumQueries |-> i]
          /\ pc = "done"
          /\ Len(out) = Len(rows) + 1
          /\ out[1] = HeaderNames
          /\ \A i \in 1..Len(rows) : out[i + 1] = rows[i] /\ Len(out[i + 1]) = 8)
  /\ [][out' # out => (pc = "write" /\ writes = 0 /\ writes' = 1)]_vars

\* the table has been written with two rows, over the previous content, after a
\* run in which a term failed
C15_Witness ==
  /\ pc = "done" /\ writes = 1 /\ warnings >= 1
  /\ Len(out) = 3 /\ out[2] # PreviousContent[2] /\ out[3] # PreviousContent[2]


\* ---- C16 ----
\* C16: the terms are handled strictly one after the other and never retried:
\* the requests made so far are those of terms 1, 2, ... in the configured
\* order, each once; a request is made only between terms, never while records
\* of a response are pending; a row is only ever added for the term requested
\* last; a term whose request failed is not requested again; a run that ends has
\* requested every term.
C16_SequentialNoRetry ==
  /\ [](reqs = [i \in 1..Len(reqs) |-> i] /\ Len(reqs) <= NumQueries)
  /\ [](pc = "done" => Len(reqs) = NumQueries)
  /\ [](pc = "loop" => Len(reqs) = idx)
  /\ [][reqs' # reqs =>
          /\ pc = "fetch" /\ reqs' = Append(reqs, idx) /\ idx = Len(reqs) + 1
          /\ (Failing(last_resp') => pc' # "loop" /\ idx' = idx + 1)]_vars
  /\ [][(pc = "loop" /\ pc' = "loop") => (reqs' = reqs /\ idx' = idx /\ j' = j + 1)]_vars
  /\ [][(pc = "loop" /\ pc' = "sleep") => (products.k = "list" /\ j = Len(products.items) + 1)]_vars
  /\ [][rows' # rows => rowSrc'[Len(rowSrc')].term = reqs[Len(reqs)]]_vars

\* every term has been requested, the second one failed, and both other terms
\* gave a row
C16_Witness ==
  /\ pc = "done" /\ reqs = <<1, 2, 3>> /\ warnings = 1
  /\ Len(rows) = 2 /\ rowSrc[1].term = 1 /\ rowSrc[2].term = 3


\* ---- C17 ----
\* C17: when every request returns or fails in finite time and every response
\* is finite, the run eventually has handled every term, has written the table
\* and has printed the summary with the number of rows.
C17_RunReachesWrite ==
  <>(pc = "done" /\ idx = NumQueries + 1 /\ writes = 1 /\ summary = Len(rows))


\* ---- C18 ----
MacroKeys == <<"energy-kcal_100g", "proteins_100g", "carbohydrates_100g", "fat_100g">>

\* the raw value of a macro key of record p, None when the key or the whole
\* nutriments object is missing
RawMacro(p, key) == get((IF p.nutriments.k = "dict" THEN p.nutriments.d ELSE NutAbsent.d)[key])

\* a numeral of digits, a point and digits, without a sign
IsUnsignedDecimal(f) ==
  \E d \in 2..(Len(f) - 1) :
    /\ f[d] = "."
    /\ \A i \in (1..Len(f)) \ {d} : f[i] \in DOMAIN DigitVal

\* C18: each of the four macro fields of every row is a finite number that is
\* not negative, and it is zero when the upstream value is unknown (absent,
\* null or not parseable).
C18_MacrosFiniteNonNegative ==
  \A i \in 1..Len(rows) : \A k \in 1..4 :
    /\ IsUnsignedDecimal(rows[i][3 + k])
    /\ Unknown(RawMacro(rowSrc[i].p, MacroKeys[k])) => rows[i][3 + k] = s_0_0


\* ---- C19 ----
\* the positions of s that hold neither a comma nor whitespace
Content(s) == {i \in 1..Len(s) : s[i] \notin Whitespace \cup {","}}

\* the token around the first content character, from that character to the
\* last non-blank character before the next comma
FirstToken(s) ==
  LET first == SetMin(Content(s))
      commas == {i \in first..Len(s) : s[i] = ","}
      stop == IF commas = {} THEN Len(s) ELSE SetMin(commas) - 1
  IN  SubSeq(s, first, SetMax({i \in first..stop : s[i] \notin Whitespace}))

ExpectedBrand(v) ==
  IF v.k \in {"absent", "null"} THEN <<>>
  ELSE IF Content(v.s) = {} THEN <<>>
  ELSE FirstToken(v.s)

\* C19: the brand of a row is the first non-empty token of the brands field
\* after splitting on commas and trimming each token: the empty string when the
\* field is absent, null, empty or holds only commas and whitespace; empty
\* tokens in front are skipped, so " , ,Foo,Bar" gives "Foo".
C19_FirstBrand ==
  \A i \in 1..Len(rows) :
    /\ rowSrc[i].p.brands.k \in {"absent", "null", "str"}
    /\ rows[i][3] = ExpectedBrand(rowSrc[i].p.brands)
    /\ rowSrc[i].p.brands = Str(s_brands_Foo) => rows[i][3] = <<"F","o","o">>

C19_Witness ==
  /\ env.k = "brand" /\ env.v = Str(<<" ", ",", "F">>)
  /\ Len(rows) = 1 /\ rows[1][3] = <<"F">>


\* ---- C20 ----
\* C20: the code tests seen before the macro gate and the name gate, the
\* specification normalizes first and tests seen for accepted records only;
\* after every record of every sequence of responses the two orders have
\* accumulated the same rows and the same set of identifiers.
C20_OrdersAgree ==
  /\ specRows = rows
  /\ specSeen = seen

\* the first record of a later response carries an identifier that is already
\* seen and fails a gate: the code has left it at the test of seen, the other
\* order at the gate
C20_Witness ==
  /\ pc = "loop" /\ products.k = "list" /\ j = 2 /\ idx >= 2
  /\ HasId(products.items[1]) /\ IdOf(products.items[1]) \in seen
  /\ loop_body(products.items[1], {}).outcome = "skip"
  /\ \E i \in 1..Len(rows) : RowIds[i] = IdOf(products.items[1]) /\ rowSrc[i].term < idx
  /\ Len(rows) = 2


\* ---- C21 ----
\* C21: the seen set holds only identifiers of accepted records and only grows:
\* every seen identifier is the identifier of a row; no step removes an
\* identifier; a record that a gate rejects leaves the set as it is; and a
\* record that passes all gates, with an identifier that no row carries yet, is
\* accepted and gives a row, also when a rejected record carried that
\* identifier before.
C21_SeenOnlyAccepted ==
  /\ [](seen = {RowIds[i] : i \in 1..Len(rows)})
  /\ [][seen \subseteq seen']_vars
  /\ [][(AtRecord /\ j' = j + 1) =>
          \A p \in {products.items[j]} : \A alone \in {loop_body(p, {})} :
            /\ alone.outcome = "skip" => seen' = seen /\ rows' = rows
            /\ (alone.outcome = "append" /\ \A i \in 1..Len(rows) : RowIds[i] # alone.code)
                 => /\ rows' = Append(rows, alone.row)
                    /\ seen' = seen \cup {alone.code}]_vars

\* a response held a record the macro gate rejects and then a record with the
\* same identifier that passes the gates: the second one has given a row
C21_Witness ==
  /\ pc = "loop" /\ products.k = "list" /\ j = 3
  /\ HasId(products.items[1]) /\ HasName(products.items[1])
  /\ loop_body(products.items[1], {}).outcome = "skip"
  /\ IdOf(products.items[2]) = IdOf(products.items[1])
  /\ Len(rows) >= 1 /\ rowSrc[Len(rows)].p = products.items[2]
  /\ seen = {RowIds[i] : i \in 1..Len(rows)}


\* ---- C22 ----
\* C22: in every row, accumulated or written, the first two fields are equal
\* and are the trimmed product_name of the record the row came from, and fields
\* four to seven are the sanitized values of that record's energy-kcal_100g,
\* proteins_100g, carbohydrates_100g and fat_100g keys, in this order.
C22_NamesAndMacrosOfRecord ==
  /\ Len(rowSrc) = Len(rows)
  /\ \A i \in 1..Len(rows) :
       \A p \in {rowSrc[i].p} :
         /\ p.product_name.k = "str"
         /\ rows[i][1] = strip(p.product_name.s)
         /\ rows[i][2] = rows[i][1]
         /\ \A k \in 1..4 : rows[i][3 + k] = FormatFloat(to_float(RawMacro(p, MacroKeys[k])))
  /\ pc = "done" => out = <<HeaderNames>> \o rows

\* a row of a record whose product_name had surrounding blanks and whose
\* protein and carbohydrate values differ has been written
C22_Witness ==
  /\ pc = "done"
  /\ \E i \in 1..Len(rows) :
       /\ out[i + 1] = rows[i]
       /\ rows[i][1] # rowSrc[i].p.product_name.s
       /\ rows[i][1] = <<"E","g","g"," ","B">>
       /\ rows[i][5] = s_0_1
       /\ rows[i][5] # rows[i][6]


\* ---- C23 ----
\* C23: a run without rows still writes.  A failed term goes on to the next
\* term or to the write step without a row, and a rejected record goes on to
\* the next record without a row; when every term has failed the run is at the
\* write step with no rows; a run at the write step with no rows ends with the
\* destination holding the header row alone, the content it had before gone,
\* and a summary of 0 rows.
C23_EmptyRunWritesHeaderOnly ==
  /\ [](warnings = NumQueries => pc \in {"write", "done"} /\ rows = <<>>)
  /\ [][(pc = "fetch" /\ warnings' = warnings + 1) =>
          /\ pc' = (IF idx = NumQueries THEN "write" ELSE "fetch")
          /\ idx' = idx + 1 /\ rows' = rows /\ out' = out]_vars
  /\ [][AtRecord =>
          \A r \in {loop_body(products.items[j], seen)} :
            r.outcome = "skip" => pc' = "loop" /\ j' = j + 1 /\ rows' = rows /\ out' = out]_vars
  /\ [](pc = "done" /\ rows = <<>> =>
          out = <<HeaderNames>> /\ out # PreviousContent /\ summary = 0 /\ writes = 1)
  /\ (pc = "write" /\ rows = <<>>) ~>
          (pc = "done" /\ out = <<HeaderNames>> /\ summary = 0)

\* every term has failed and the header row alone has replaced the previous
\* content of the destination
C23_Witness ==
  /\ pc = "done" /\ warnings = NumQueries /\ Len(reqs) = NumQueries
  /\ rows = <<>> /\ out = <<HEADER>> /\ Len(PreviousContent) > 1
  /\ summary = 0

====
